---- MODULE Spec2Model ----
(***************************************************************************)
(* vibe-trade-api: bearer-token verification (src/auth.py), the lazy       *)
(* repository handles (src/repositories.py), process start-up              *)
(* (src/main.py) and the strategy / thread endpoints (src/routes).         *)
(*                                                                         *)
(* Python values are records [t, v]: t is the Python type and v the text   *)
(* of the value, so that str(7) = "7" differs from the integer 7 and a     *)
(* missing dictionary key differs from None.                               *)
(***************************************************************************)
EXTENDS Naturals, Sequences, FiniteSets, TLC

\* ---------------------------------------------------------------- bounds

\* Longest bearer token, in characters.
MaxLen == 3
\* Requests in flight at once under SpecConc.
MaxInFlight == 2
\* Longest list of strategies get_threads is given under SpecThreads, and the
\* latest updated_at in it.
MaxStrategies == 3
MaxStamp == 2
\* Most calls of the repository accessors in one run.
MaxCalls == 3

\* ---------------------------------------------------------- Python values

None == [t |-> "none", v |-> ""]
Missing == [t |-> "missing", v |-> ""]
Str(s) == [t |-> "str", v |-> s]
Int(s) == [t |-> "int", v |-> s]

\* Python truthiness of a value: None, "" and 0 are falsy.
Truthy(x) ==
    \/ x.t = "str" /\ x.v # ""
    \/ x.t = "int" /\ x.v # "0"
    \/ x.t = "module"
    \/ x.t = "object"

\* An imported module and an object instance (always truthy).
Module(name) == [t |-> "module", v |-> name]
Object(name) == [t |-> "object", v |-> name]

\* str(x) of a string or an integer.
PyStr(x) == Str(x.v)

\* dict.get(key): None when the key is missing.
DictGet(x) == IF x = Missing THEN None ELSE x

\* HTTP status codes (fastapi.status).
HTTP_401_UNAUTHORIZED == 401
HTTP_403_FORBIDDEN == 403
HTTP_404_NOT_FOUND == 404
HTTP_500_INTERNAL_SERVER_ERROR == 500

\* ------------------------------------------------------------ str methods

Chars == {" ", ".", "a"}

\* All strings over Chars of length 0..n.
RECURSIVE StringsUpTo(_)
StringsUpTo(n) ==
    IF n = 0 THEN {<<>>}
    ELSE LET shorter == StringsUpTo(n - 1)
         IN  shorter \cup {Append(s, c) : s \in {x \in shorter : Len(x) = n - 1}, c \in Chars}

RECURSIVE LStrip(_)
LStrip(s) == IF s # <<>> /\ Head(s) = " " THEN LStrip(Tail(s)) ELSE s

RECURSIVE RStrip(_)
RStrip(s) ==
    IF s # <<>> /\ s[Len(s)] = " " THEN RStrip(SubSeq(s, 1, Len(s) - 1)) ELSE s

\* token.strip()
Strip(s) == RStrip(LStrip(s))

\* token.split('.'): the segments between the dots, empty ones included.
RECURSIVE SplitFrom(_, _, _)
SplitFrom(s, cur, acc) ==
    IF s = <<>> THEN Append(acc, cur)
    ELSE IF Head(s) = "." THEN SplitFrom(Tail(s), <<>>, Append(acc, cur))
    ELSE SplitFrom(Tail(s), Append(cur, Head(s)), acc)

Split(s) == SplitFrom(s, <<>>, <<>>)

\* ------------------------------------------------------------ src/auth.py

\* What auth.verify_id_token(token) does: returns the decoded claims or raises.
\* payload holds the keys of the decoded dictionary the code or its
\* documentation names; exc is the exception, padding telling whether its
\* message contains "padding".
NoPayload == [sub |-> Missing, uid |-> Missing, user_id |-> Missing]
NoExc == [cls |-> "", padding |-> FALSE]
NoOutcome == [kind |-> "none", payload |-> NoPayload, exc |-> NoExc]
Decoded(p) == [kind |-> "ok", payload |-> p, exc |-> NoExc]
Raises(e) == [kind |-> "raise", payload |-> NoPayload, exc |-> e]

Payloads ==
    [sub : {Missing, Str("u1"), Str("u2")},
     uid : {Missing, None, Str(""), Str("u1"), Str("u2"), Int("7")},
     user_id : {Missing, Str("u1")}]

\* ValueError is the builtin; InvalidArgumentError, InvalidIdTokenError and
\* ExpiredIdTokenError are firebase_admin's bad-token errors (each an
\* InvalidArgumentError); CertificateFetchError is raised when the public
\* certificates cannot be fetched; Exception stands for any other error.
ExcClasses ==
    {"ValueError", "InvalidArgumentError", "InvalidIdTokenError",
     "ExpiredIdTokenError", "CertificateFetchError", "Exception"}
Excs == [cls : ExcClasses, padding : BOOLEAN]

VerifyOutcomes == {Decoded(p) : p \in Payloads} \cup {Raises(e) : e \in Excs}

\* isinstance(e, firebase_admin.exceptions.InvalidArgumentError)
IsInvalidArgumentError(e) ==
    e.cls \in {"InvalidArgumentError", "InvalidIdTokenError", "ExpiredIdTokenError"}

\* An error of the backend itself, not of the credential.
IsOperationalFault(e) == e.cls = "CertificateFetchError"

\* The two ways a call ends.
Return(x, consulted) ==
    [kind |-> "return", value |-> x, status |-> 0, detail |-> "",
     consulted |-> consulted]
HTTPException(status_code, detail, consulted) ==
    [kind |-> "raise", value |-> None, status |-> status_code, detail |-> detail,
     consulted |-> consulted]

\* The HTTPException raised in the try block, seen as an exception by the
\* handlers below: str(e) is "401: Firebase token missing user ID".
MissingUidExc == [cls |-> "HTTPException", padding |-> FALSE]

\* The format check accepting any token of at least 3 segments.
token_format_at_least_3(token) == Len(Split(token)) >= 3

\* len(parts) != 3 is rejected.
token_format_ok(token) == Len(Split(token)) = 3

\* not FIREBASE_AVAILABLE or not auth
backend_unavailable(available, auth_handle) ==
    ~available \/ ~Truthy(auth_handle)

\* The identity read from sub first, then uid.
extract_user_id_sub_first(decoded_token) ==
    IF decoded_token.sub # Missing THEN decoded_token.sub
    ELSE DictGet(decoded_token.uid)

\* decoded_token.get("uid")
extract_user_id(decoded_token) == DictGet(decoded_token.uid)

\* The except clauses with the last one answering 500 unless the message
\* speaks of padding.
except_clauses_generic_500(e, fb_admin) ==
    IF e.cls = "ValueError" THEN
        IF e.padding
        THEN HTTPException(HTTP_401_UNAUTHORIZED, "truncated or malformed", TRUE)
        ELSE HTTPException(HTTP_401_UNAUTHORIZED, "Invalid token", TRUE)
    ELSE IF Truthy(fb_admin) /\ IsInvalidArgumentError(e) THEN
        IF e.padding
        THEN HTTPException(HTTP_401_UNAUTHORIZED, "truncated or malformed", TRUE)
        ELSE HTTPException(HTTP_401_UNAUTHORIZED, "Invalid Firebase token", TRUE)
    ELSE IF e.padding
        THEN HTTPException(HTTP_401_UNAUTHORIZED, "truncated or malformed", TRUE)
        ELSE HTTPException(HTTP_500_INTERNAL_SERVER_ERROR, "Firebase token verification failed", TRUE)

\* The except clauses with the last one logging the error and returning None.
except_clauses_swallow(e, fb_admin) ==
    IF e.cls = "ValueError" THEN
        IF e.padding
        THEN HTTPException(HTTP_401_UNAUTHORIZED, "truncated or malformed", TRUE)
        ELSE HTTPException(HTTP_401_UNAUTHORIZED, "Invalid token", TRUE)
    ELSE IF Truthy(fb_admin) /\ IsInvalidArgumentError(e) THEN
        IF e.padding
        THEN HTTPException(HTTP_401_UNAUTHORIZED, "truncated or malformed", TRUE)
        ELSE HTTPException(HTTP_401_UNAUTHORIZED, "Invalid Firebase token", TRUE)
    ELSE IF e.cls = "HTTPException"
        THEN HTTPException(HTTP_401_UNAUTHORIZED, "Firebase token verification failed", TRUE)
        ELSE Return(None, TRUE)

\* The except clauses of get_user_id_optional, applied to exception e.
except_clauses(e, fb_admin) ==
    IF e.cls = "ValueError" THEN
        IF e.padding
        THEN HTTPException(HTTP_401_UNAUTHORIZED, "truncated or malformed", TRUE)
        ELSE HTTPException(HTTP_401_UNAUTHORIZED, "Invalid token", TRUE)
    ELSE IF Truthy(fb_admin) /\ IsInvalidArgumentError(e) THEN
        IF e.padding
        THEN HTTPException(HTTP_401_UNAUTHORIZED, "truncated or malformed", TRUE)
        ELSE HTTPException(HTTP_401_UNAUTHORIZED, "Invalid Firebase token", TRUE)
    ELSE IF e.padding
        THEN HTTPException(HTTP_401_UNAUTHORIZED, "truncated or malformed", TRUE)
        ELSE HTTPException(HTTP_401_UNAUTHORIZED, "Firebase token verification failed", TRUE)

\* The try block: verify, read the uid, return it as a string.
try_block(outcome, fb_admin) ==
    IF outcome.kind = "ok" THEN
        LET user_id == extract_user_id(outcome.payload)
        IN  IF Truthy(user_id)
            THEN Return(PyStr(user_id), TRUE)
            ELSE except_clauses(MissingUidExc, fb_admin)
    ELSE except_clauses(outcome.exc, fb_admin)

\* The body of get_user_id_optional once credentials were supplied.
verify_supplied(credentials, available, auth_handle, fb_admin, outcome) ==
    IF credentials.token = <<>> THEN
        HTTPException(HTTP_401_UNAUTHORIZED, "Missing authentication token", FALSE)
    ELSE LET token == Strip(credentials.token)
         IN  IF ~token_format_ok(token) THEN
                 HTTPException(HTTP_401_UNAUTHORIZED, "Invalid token format", FALSE)
             ELSE IF backend_unavailable(available, auth_handle) THEN
                 HTTPException(HTTP_500_INTERNAL_SERVER_ERROR,
                               "Firebase authentication not available", FALSE)
             ELSE try_block(outcome, fb_admin)

\* get_user_id_optional with the backend check ahead of the credentials check.
get_user_id_optional_backend_first(credentials, available, auth_handle, fb_admin, outcome) ==
    IF backend_unavailable(available, auth_handle) THEN
        HTTPException(HTTP_500_INTERNAL_SERVER_ERROR,
                      "Firebase authentication not available", FALSE)
    ELSE IF ~credentials.present THEN Return(None, FALSE)
    ELSE verify_supplied(credentials, available, auth_handle, fb_admin, outcome)

\* credentials: [present, token]; outcome: what verify_id_token would do.
get_user_id_optional(credentials, available, auth_handle, fb_admin, outcome) ==
    IF ~credentials.present THEN Return(None, FALSE)
    ELSE verify_supplied(credentials, available, auth_handle, fb_admin, outcome)

\* get_user_id_required without its own check of the result.
get_user_id_required_unchecked(credentials, available, auth_handle, fb_admin, outcome) ==
    get_user_id_optional(credentials, available, auth_handle, fb_admin, outcome)

get_user_id_required(credentials, available, auth_handle, fb_admin, outcome) ==
    LET r == get_user_id_optional(credentials, available, auth_handle, fb_admin, outcome)
    IN  IF r.kind = "raise" THEN r
        ELSE IF ~Truthy(r.value) THEN
            HTTPException(HTTP_401_UNAUTHORIZED, "Authentication required", r.consulted)
        ELSE r

\* get_user_id = get_user_id_optional
get_user_id(credentials, available, auth_handle, fb_admin, outcome) ==
    get_user_id_optional(credentials, available, auth_handle, fb_admin, outcome)

\* The module body of src/auth.py: how the import of the Firebase Admin SDK
\* and its initialisation ended decides the three globals. raised tells
\* whether an exception leaves the module body.
AuthImportOutcomes == {"ok", "sdk_missing", "auth_missing", "init_failed"}

\* The module body letting a failed initialize_app() escape.
auth_module_body_fatal(outcome) ==
    IF outcome = "ok" THEN
        [FIREBASE_AVAILABLE |-> TRUE, auth |-> Module("firebase_admin.auth"),
         firebase_admin |-> Module("firebase_admin"), raised |-> FALSE]
    ELSE IF outcome = "sdk_missing" THEN
        [FIREBASE_AVAILABLE |-> FALSE, auth |-> None, firebase_admin |-> None,
         raised |-> FALSE]
    ELSE
        [FIREBASE_AVAILABLE |-> FALSE, auth |-> None,
         firebase_admin |-> Module("firebase_admin"),
         raised |-> (outcome = "init_failed")]

auth_module_body(outcome) ==
    IF outcome = "ok" THEN
        [FIREBASE_AVAILABLE |-> TRUE, auth |-> Module("firebase_admin.auth"),
         firebase_admin |-> Module("firebase_admin"), raised |-> FALSE]
    ELSE IF outcome = "sdk_missing" THEN
        [FIREBASE_AVAILABLE |-> FALSE, auth |-> None, firebase_admin |-> None,
         raised |-> FALSE]
    ELSE
        [FIREBASE_AVAILABLE |-> FALSE, auth |-> None,
         firebase_admin |-> Module("firebase_admin"), raised |-> FALSE]

\* A call that marks the backend unavailable once a verification raised.
auth_globals_tripped(available, auth_handle, fb_admin, result) ==
    IF result.kind = "raise" /\ result.consulted
    THEN <<FALSE, None, fb_admin>>
    ELSE <<available, auth_handle, fb_admin>>

\* get_user_id_optional declares no global and assigns none: the module's
\* globals after a call are those before it.
auth_globals_after_call(available, auth_handle, fb_admin, result) ==
    <<available, auth_handle, fb_admin>>

\* ---------------------------------------------------- src/repositories.py

\* The module's globals after it is imported, before any accessor is called.
ReposInit ==
    [_FirestoreClient |-> None, _CardRepository |-> None,
     _StrategyRepository |-> None, _firestore_client |-> None,
     _card_repository |-> None, _strategy_repository |-> None]

\* What the environment does during one initialisation: whether the
\* vibe-trade-mcp package imports, the two environment variables, and whether
\* the client and the two repository constructors succeed.
InitEnvs ==
    [mcp_installed : BOOLEAN,
     project : {None, Str(""), Str("proj")},
     database : {None, Str(""), Str("(default)"), Str("strategy")},
     client_ok : BOOLEAN, card_ok : BOOLEAN, strategy_ok : BOOLEAN]

\* A call's end: the globals it leaves, the exception it raised ("" for none)
\* and the value it returned.
CallEnd(g, raised, value) == [g |-> g, raised |-> raised, value |-> value]

_import_mcp_modules(g, env) ==
    IF g._FirestoreClient # None THEN CallEnd(g, "", None)
    ELSE IF env.mcp_installed THEN
        CallEnd([g EXCEPT !._FirestoreClient = Object("FirestoreClient"),
                          !._CardRepository = Object("CardRepository"),
                          !._StrategyRepository = Object("StrategyRepository")],
                "", None)
    ELSE CallEnd(g, "ImportError", None)

_initialize_repositories(g, env) ==
    IF g._firestore_client # None THEN CallEnd(g, "", None)
    ELSE LET imported == _import_mcp_modules(g, env)
             g1 == imported.g
             g2 == [g1 EXCEPT !._firestore_client = Object("client")]
             g3 == [g2 EXCEPT !._card_repository = Object("card_repository")]
             g4 == [g3 EXCEPT !._strategy_repository = Object("strategy_repository")]
         IN  IF imported.raised # "" THEN imported
             ELSE IF ~Truthy(env.project) THEN CallEnd(g1, "ValueError", None)
             ELSE IF ~Truthy(env.database) THEN CallEnd(g1, "ValueError", None)
             ELSE IF ~env.client_ok THEN CallEnd(g1, "Exception", None)
             ELSE IF ~env.card_ok THEN CallEnd(g2, "Exception", None)
             ELSE IF ~env.strategy_ok THEN CallEnd(g3, "Exception", None)
             ELSE CallEnd(g4, "", None)

get_firestore_client(g, env) ==
    LET r == _initialize_repositories(g, env)
    IN  IF r.raised # "" THEN r ELSE CallEnd(r.g, "", r.g._firestore_client)

get_card_repository(g, env) ==
    LET r == _initialize_repositories(g, env)
    IN  IF r.raised # "" THEN r ELSE CallEnd(r.g, "", r.g._card_repository)

get_strategy_repository(g, env) ==
    LET r == _initialize_repositories(g, env)
    IN  IF r.raised # "" THEN r ELSE CallEnd(r.g, "", r.g._strategy_repository)

\* Module-level __getattr__(name), which `from src.repositories import name`
\* calls for the three lazy names.
module_getattr(name, g, env) ==
    IF name = "firestore_client" THEN get_firestore_client(g, env)
    ELSE IF name = "card_repository" THEN get_card_repository(g, env)
    ELSE IF name = "strategy_repository" THEN get_strategy_repository(g, env)
    ELSE CallEnd(g, "AttributeError", None)

\* ------------------------------------------------- the document store

\* A strategy document: the fields the handlers read. name, status, universe,
\* version and created_at are copied through unread and are left out;
\* updated_at is an ISO8601 string in the code and a number here, ordered the
\* same way.
Strategy(id, owner_id, thread_id, updated_at, attachments) ==
    [id |-> id, owner_id |-> owner_id, thread_id |-> thread_id,
     updated_at |-> updated_at, attachments |-> attachments]

NoStrategy == Strategy("", None, None, 0, <<>>)

\* The contents of the strategy collection, in the order a query lists them.
StoreA ==
    << Strategy("s1", Str("u1"), Str("t1"), 1, <<"c1", "c9">>),
       Strategy("s2", None, Str("t2"), 2, <<>>),
       Strategy("s3", Str(""), Str("t3"), 1, <<"c1">>),
       Strategy("s4", Str("u1"), Str("t1"), 2, <<>>),
       Strategy("s5", Str("u2"), None, 1, <<"c2">>) >>

StoreB ==
    << Strategy("s1", Str("7"), Str("t1"), 2, <<"c2">>),
       Strategy("s2", Str("u2"), Str("t2"), 2, <<>>),
       Strategy("s3", None, Str("t3"), 1, <<"c9">>),
       Strategy("s4", Str("u2"), Str("t3"), 1, <<"c1">>),
       Strategy("s5", Str("u2"), Str("t2"), 2, <<>>) >>

Stores == {StoreA, StoreB}

\* The card documents that exist.
CardIds == {"c1", "c2"}

\* The path parameter of a request: a strategy id, a thread id or neither.
PathIds == {"s1", "s2", "s3", "t1", "t2", "t3", "zz"}

Range(f) == {f[i] : i \in DOMAIN f}

\* What a lookup can return: a found document or None.
Found(x) == [found |-> TRUE, s |-> x]
NotFound == [found |-> FALSE, s |-> NoStrategy]

\* strategy_repository.get_by_id(id)
get_by_id(store, id) ==
    LET hits == {x \in Range(store) : x.id = id}
    IN  IF hits = {} THEN {NotFound} ELSE {Found(x) : x \in hits}

\* strategy_repository.get_by_thread_id(thread_id): one of the strategies of
\* the thread, whichever the query lists first.
get_by_thread_id(store, thread_id) ==
    LET hits == {x \in Range(store) : x.thread_id = Str(thread_id)}
    IN  IF hits = {} THEN {NotFound} ELSE {Found(x) : x \in hits}

\* strategy_repository.get_by_owner_id(owner): the owner's strategies, in the
\* store's order.
get_by_owner_id(store, owner) == SelectSeq(store, LAMBDA x : x.owner_id = owner)

\* ------------------------------------------------------------- responses

NoBody ==
    [kind |-> "none", strategy |-> NoStrategy, cards |-> <<>>, card_count |-> 0,
     items |-> <<>>]

\* The response a request ends with; queried tells whether the handler ran
\* its repository query.
Response(status, detail, body, queried) ==
    [status |-> status, detail |-> detail, body |-> body, queried |-> queried]

NoResponse == Response(0, "", NoBody, FALSE)

\* An HTTPException raised by a handler, and an exception no handler catches
\* (the server answers 500 Internal Server Error).
Raise(status, detail) == Response(status, detail, NoBody, TRUE)
Unhandled == Response(HTTP_500_INTERNAL_SERVER_ERROR, "Internal Server Error", NoBody, TRUE)

\* The end of a call on a repository handle: it raised (as any call on a None
\* handle does), or returned one of results.
LookupEnds(handle, results) ==
    {[raised |-> TRUE, result |-> NotFound]}
        \cup IF handle = None THEN {}
             ELSE {[raised |-> FALSE, result |-> r] : r \in results}

ListEnds(handle, result) ==
    {[raised |-> TRUE, result |-> <<>>]}
        \cup IF handle = None THEN {} ELSE {[raised |-> FALSE, result |-> result]}

\* Whether card_repository.get_by_id raises when called.
CardFaults(handle) == IF handle = None THEN {TRUE} ELSE BOOLEAN

\* ------------------------------------------------ src/routes/strategies.py

_build_strategy_dict(strategy) ==
    [id |-> strategy.id, owner_id |-> strategy.owner_id,
     thread_id |-> strategy.thread_id, updated_at |-> strategy.updated_at,
     attachments |-> strategy.attachments]

\* The cards of the attachments that exist, in attachment order.
AttachedCards(attachments) == SelectSeq(attachments, LAMBDA c : c \in CardIds)

\* card_fault: card_repository.get_by_id raises when it is called, which
\* happens only for a strategy with attachments.
_get_strategy_cards(strategy, card_fault) ==
    IF card_fault /\ strategy.attachments # <<>>
    THEN [raised |-> TRUE, cards |-> <<>>]
    ELSE [raised |-> FALSE, cards |-> AttachedCards(strategy.attachments)]

\* access_control without the comparison of the caller with the owner.
access_control_any_caller(owner_id, user_id) ==
    IF Truthy(owner_id) THEN
        IF ~Truthy(user_id) THEN HTTP_401_UNAUTHORIZED ELSE 0
    ELSE 0

\* The access control block of the three single-resource handlers
\* (strategies.py 116-126 and 178-188, threads.py 132-142): the status it
\* raises, or 0 when it lets the request through.
access_control(owner_id, user_id) ==
    IF Truthy(owner_id) THEN
        IF ~Truthy(user_id) THEN HTTP_401_UNAUTHORIZED
        ELSE IF user_id # owner_id THEN HTTP_403_FORBIDDEN
        ELSE 0
    ELSE 0

StrategyWithCardsResponse(strategy, cards) ==
    Response(200, "",
             [kind |-> "strategy", strategy |-> _build_strategy_dict(strategy),
              cards |-> cards, card_count |-> Len(cards), items |-> <<>>],
             TRUE)

\* get_strategies leaving out the first strategy of the listing.
get_strategies_short(user_id, listing) ==
    IF listing.raised THEN Raise(HTTP_500_INTERNAL_SERVER_ERROR, "Database error")
    ELSE Response(200, "",
                  [kind |-> "strategies", strategy |-> NoStrategy, cards |-> <<>>,
                   card_count |-> 0,
                   items |-> IF listing.result = <<>> THEN <<>>
                             ELSE [i \in DOMAIN Tail(listing.result) |->
                                      _build_strategy_dict(Tail(listing.result)[i])]],
                  TRUE)

get_strategies(user_id, listing) ==
    IF listing.raised THEN Raise(HTTP_500_INTERNAL_SERVER_ERROR, "Database error")
    ELSE Response(200, "",
                  [kind |-> "strategies", strategy |-> NoStrategy, cards |-> <<>>,
                   card_count |-> 0,
                   items |-> [i \in DOMAIN listing.result |->
                                 _build_strategy_dict(listing.result[i])]],
                  TRUE)

\* An exception that is no HTTPException, on its way out of a try block.
OtherException == Response(0, "Exception", NoBody, TRUE)

\* The except clauses with every exception, HTTPException included, answered
\* by the generic clause.
handler_except_clauses_all_500(raised) ==
    IF raised.status # 200
    THEN Raise(HTTP_500_INTERNAL_SERVER_ERROR, "Database error")
    ELSE raised

\* `except HTTPException: raise` followed by `except Exception` (strategies.py
\* 137-144, threads.py 154-161), applied to what the try block ended with.
handler_except_clauses(raised) ==
    IF raised = OtherException
    THEN Raise(HTTP_500_INTERNAL_SERVER_ERROR, "Database error")
    ELSE raised

\* The try block of get_strategy_by_thread_id (strategies.py 104-135).
get_strategy_by_thread_id_try(thread_id, user_id, lookup, card_fault) ==
    IF lookup.raised THEN OtherException
    ELSE IF ~lookup.result.found THEN Raise(HTTP_404_NOT_FOUND, "No strategy found for thread_id")
    ELSE LET strategy == lookup.result.s
             denied == access_control(strategy.owner_id, user_id)
             cards == _get_strategy_cards(strategy, card_fault)
         IN  IF denied = HTTP_401_UNAUTHORIZED THEN Raise(denied, "Authentication required")
             ELSE IF denied = HTTP_403_FORBIDDEN THEN Raise(denied, "Access denied")
             ELSE IF cards.raised THEN OtherException
             ELSE StrategyWithCardsResponse(strategy, cards.cards)

get_strategy_by_thread_id(thread_id, user_id, lookup, card_fault) ==
    handler_except_clauses(
        get_strategy_by_thread_id_try(thread_id, user_id, lookup, card_fault))

\* get_strategy_by_id without the not-found check: strategy.owner_id is read
\* from None and the AttributeError is answered 500.
get_strategy_by_id_unchecked(strategy_id, user_id, lookup, card_fault) ==
    IF lookup.raised THEN Unhandled
    ELSE IF ~lookup.result.found THEN Unhandled
    ELSE LET strategy == lookup.result.s
             denied == access_control(strategy.owner_id, user_id)
             cards == _get_strategy_cards(strategy, card_fault)
         IN  IF denied = HTTP_401_UNAUTHORIZED THEN Raise(denied, "Authentication required")
             ELSE IF denied = HTTP_403_FORBIDDEN THEN Raise(denied, "Access denied")
             ELSE IF cards.raised THEN Unhandled
             ELSE StrategyWithCardsResponse(strategy, cards.cards)

get_strategy_by_id(strategy_id, user_id, lookup, card_fault) ==
    IF lookup.raised THEN Unhandled
    ELSE IF ~lookup.result.found THEN Raise(HTTP_404_NOT_FOUND, "Strategy not found")
    ELSE LET strategy == lookup.result.s
             denied == access_control(strategy.owner_id, user_id)
             cards == _get_strategy_cards(strategy, card_fault)
         IN  IF denied = HTTP_401_UNAUTHORIZED THEN Raise(denied, "Authentication required")
             ELSE IF denied = HTTP_403_FORBIDDEN THEN Raise(denied, "Access denied")
             ELSE IF cards.raised THEN Unhandled
             ELSE StrategyWithCardsResponse(strategy, cards.cards)

\* --------------------------------------------------- src/routes/threads.py

ThreadEntry(thread_id, strategy) ==
    [thread_id |-> thread_id, strategy_id |-> strategy.id,
     updated_at |-> strategy.updated_at]

\* thread_map after the loop over strategies[i..]: a dict in insertion order.
RECURSIVE BuildThreadMap(_, _, _)
BuildThreadMap(strategies, i, thread_map) ==
    IF i > Len(strategies) THEN thread_map
    ELSE LET strategy == strategies[i]
             thread_id == strategy.thread_id.v
             at == {j \in DOMAIN thread_map : thread_map[j].thread_id = thread_id}
         IN  IF ~Truthy(strategy.thread_id)
             THEN BuildThreadMap(strategies, i + 1, thread_map)
             ELSE IF at # {} THEN
                 LET j == CHOOSE k \in at : TRUE
                 IN  IF strategy.updated_at > thread_map[j].updated_at
                     THEN BuildThreadMap(strategies, i + 1,
                              [thread_map EXCEPT ![j] = ThreadEntry(thread_id, strategy)])
                     ELSE BuildThreadMap(strategies, i + 1, thread_map)
             ELSE BuildThreadMap(strategies, i + 1,
                      Append(thread_map, ThreadEntry(thread_id, strategy)))

\* x placed after the entries that are at least as recent (a stable sort).
RECURSIVE InsertByUpdatedAt(_, _)
InsertByUpdatedAt(sorted, x) ==
    IF sorted = <<>> THEN <<x>>
    ELSE IF Head(sorted).updated_at >= x.updated_at
         THEN <<Head(sorted)>> \o InsertByUpdatedAt(Tail(sorted), x)
         ELSE <<x>> \o sorted

\* threads.sort(key=updated_at, reverse=True)
RECURSIVE SortByUpdatedAtDesc(_)
SortByUpdatedAtDesc(threads) ==
    IF threads = <<>> THEN <<>>
    ELSE InsertByUpdatedAt(SortByUpdatedAtDesc(SubSeq(threads, 1, Len(threads) - 1)),
                           threads[Len(threads)])

\* get_threads returning the threads in thread_map's order, unsorted.
get_threads_unsorted(user_id, listing) ==
    IF listing.raised THEN Raise(HTTP_500_INTERNAL_SERVER_ERROR, "Database error")
    ELSE Response(200, "",
                  [kind |-> "threads", strategy |-> NoStrategy, cards |-> <<>>,
                   card_count |-> 0,
                   items |-> BuildThreadMap(listing.result, 1, <<>>)],
                  TRUE)

get_threads(user_id, listing) ==
    IF listing.raised THEN Raise(HTTP_500_INTERNAL_SERVER_ERROR, "Database error")
    ELSE Response(200, "",
                  [kind |-> "threads", strategy |-> NoStrategy, cards |-> <<>>,
                   card_count |-> 0,
                   items |-> SortByUpdatedAtDesc(BuildThreadMap(listing.result, 1, <<>>))],
                  TRUE)

ThreadResponse(thread_id, strategy) ==
    Response(200, "",
             [kind |-> "thread",
              strategy |-> Strategy(strategy.id, None, Str(thread_id),
                                    strategy.updated_at, <<>>),
              cards |-> <<>>, card_count |-> 0, items |-> <<>>],
             TRUE)

\* The try block of get_thread (threads.py 119-152).
get_thread_try(thread_id, user_id, lookup) ==
    IF lookup.raised THEN OtherException
    ELSE IF ~lookup.result.found THEN Raise(HTTP_404_NOT_FOUND, "Thread not found")
    ELSE LET strategy == lookup.result.s
             denied == access_control(strategy.owner_id, user_id)
         IN  IF denied = HTTP_401_UNAUTHORIZED THEN Raise(denied, "Authentication required")
             ELSE IF denied = HTTP_403_FORBIDDEN THEN Raise(denied, "Access denied")
             ELSE ThreadResponse(thread_id, strategy)

get_thread(thread_id, user_id, lookup) ==
    handler_except_clauses(get_thread_try(thread_id, user_id, lookup))

\* One call of an accessor as the history keeps it: the function called, the
\* exception it raised ("" for none), the value it returned and the module's
\* globals when it ended.
Call(name, r) == [name |-> name, raised |-> r.raised, value |-> r.value, g |-> r.g]

\* ---------------------------------------------------------------- state

VARIABLES
    pc,                  \* where the process is: importing, serving, crashed
    FIREBASE_AVAILABLE,  \* src/auth.py globals
    auth,
    firebase_admin,
    repositories,        \* src/repositories.py globals
    card_repository,     \* the names the route modules bind at import
    strategy_repository,
    store,               \* the strategy collection
    req,                 \* the requests in flight, by slot
    calls                \* the calls of the repository accessors so far

vars ==
    <<pc, FIREBASE_AVAILABLE, auth, firebase_admin, repositories,
      card_repository, strategy_repository, store, req, calls>>

\* What requests may only read.
config == <<FIREBASE_AVAILABLE, auth, firebase_admin, repositories,
            card_repository, strategy_repository, store, calls>>

Slots == 1 .. MaxInFlight

\* The five handlers. src/main.py registers the strategies router only; the
\* two handlers of src/routes/threads.py are modelled as they are written.
ListEndpoints == {"get_strategies", "get_threads"}
SingleEndpoints == {"get_strategy_by_thread_id", "get_strategy_by_id", "get_thread"}
Endpoints == ListEndpoints \cup SingleEndpoints

NoCredentials == [present |-> FALSE, token |-> <<>>]
Bearer(token) == [present |-> TRUE, token |-> token]
Credentials == {NoCredentials} \cup {Bearer(t) : t \in StringsUpTo(MaxLen)}

NoLookup == [raised |-> FALSE, result |-> NotFound]
NoListing == [raised |-> FALSE, result |-> <<>>]
NoAuth == [kind |-> "none", value |-> None, status |-> 0, detail |-> "",
           consulted |-> FALSE]

Idle ==
    [pc |-> "idle", endpoint |-> "", path |-> "", cred |-> NoCredentials,
     outcome |-> NoOutcome, auth |-> NoAuth, lookup |-> NoLookup,
     listing |-> NoListing, card_fault |-> FALSE, resp |-> NoResponse]

Init ==
    /\ pc = "import_auth"
    /\ FIREBASE_AVAILABLE = FALSE
    /\ auth = None
    /\ firebase_admin = None
    /\ repositories = ReposInit
    /\ card_repository = None
    /\ strategy_repository = None
    /\ store \in Stores
    /\ req = [s \in Slots |-> Idle]
    /\ calls = <<>>

\* -------------------------------------------------------------- start-up

\* src/main.py imports src.routes.strategies, which first imports src.auth.
ImportAuth ==
    /\ pc = "import_auth"
    /\ \E outcome \in AuthImportOutcomes :
         LET r == auth_module_body(outcome)
         IN  /\ FIREBASE_AVAILABLE' = r.FIREBASE_AVAILABLE
             /\ auth' = r.auth
             /\ firebase_admin' = r.firebase_admin
             /\ pc' = IF r.raised THEN "crashed" ELSE "import_routes"
    /\ UNCHANGED <<repositories, card_repository, strategy_repository, store, req,
                   calls>>

\* from src.repositories import card_repository, strategy_repository
\* (src/routes/strategies.py line 10): an exception ends the import of
\* src.main, and the process with it.
ImportRoutes ==
    /\ pc = "import_routes"
    /\ \E env \in InitEnvs :
         LET c == module_getattr("card_repository", repositories, env)
             t == module_getattr("strategy_repository", c.g, env)
         IN  IF c.raised # "" THEN
                 /\ repositories' = c.g
                 /\ calls' = Append(calls, Call("get_card_repository", c))
                 /\ pc' = "crashed"
                 /\ UNCHANGED <<card_repository, strategy_repository>>
             ELSE IF t.raised # "" THEN
                 /\ repositories' = t.g
                 /\ calls' = calls \o <<Call("get_card_repository", c),
                                        Call("get_strategy_repository", t)>>
                 /\ pc' = "crashed"
                 /\ UNCHANGED <<card_repository, strategy_repository>>
             ELSE
                 /\ repositories' = t.g
                 /\ calls' = calls \o <<Call("get_card_repository", c),
                                        Call("get_strategy_repository", t)>>
                 /\ card_repository' = c.value
                 /\ strategy_repository' = t.value
                 /\ pc' = "lifespan"
    /\ UNCHANGED <<FIREBASE_AVAILABLE, auth, firebase_admin, store, req>>

\* lifespan's start-up half (src/main.py 28-48): the client is fetched inside
\* try/except, so the server is ready whether or not that raised.
Lifespan ==
    /\ pc = "lifespan"
    /\ \E env \in InitEnvs :
         LET r == module_getattr("firestore_client", repositories, env)
         IN  /\ repositories' = r.g
             /\ calls' = Append(calls, Call("get_firestore_client", r))
    /\ pc' = "serving"
    /\ UNCHANGED <<FIREBASE_AVAILABLE, auth, firebase_admin, card_repository,
                   strategy_repository, store, req>>

\* --------------------------------------------------------------- requests

\* The dependency an endpoint declares for user_id.
Dependency(endpoint, credentials, outcome) ==
    IF endpoint \in ListEndpoints
    THEN get_user_id_required(credentials, FIREBASE_AVAILABLE, auth, firebase_admin, outcome)
    ELSE get_user_id(credentials, FIREBASE_AVAILABLE, auth, firebase_admin, outcome)

\* A request arrives: its endpoint, its path parameter, its Authorization header.
Arrive(s, creds, paths) ==
    /\ pc = "serving"
    /\ req[s].pc = "idle"
    /\ \E endpoint \in Endpoints, cred \in creds, path \in paths :
         req' = [req EXCEPT ![s] =
                    [Idle EXCEPT !.pc = "arrived", !.endpoint = endpoint,
                                 !.path = IF endpoint \in ListEndpoints THEN "" ELSE path,
                                 !.cred = cred]]
    /\ UNCHANGED <<pc, FIREBASE_AVAILABLE, auth, firebase_admin, repositories,
                   card_repository, strategy_repository, store, calls>>

\* The user_id dependency runs; if it raises, the handler never does. The
\* backend's answer is drawn only when the call gets as far as asking it.
Authenticate(s, outcomes) ==
    /\ pc = "serving"
    /\ req[s].pc = "arrived"
    /\ \E outcome \in IF Dependency(req[s].endpoint, req[s].cred, NoOutcome).consulted
                       THEN outcomes ELSE {NoOutcome} :
         LET r == Dependency(req[s].endpoint, req[s].cred, outcome)
             after == auth_globals_after_call(FIREBASE_AVAILABLE, auth, firebase_admin, r)
         IN  /\ req' = [req EXCEPT ![s] =
                    [@ EXCEPT !.pc = IF r.kind = "raise" THEN "done" ELSE "authed",
                              !.outcome = IF r.consulted THEN outcome ELSE NoOutcome,
                              !.auth = r,
                              !.resp = IF r.kind = "raise"
                                       THEN Response(r.status, r.detail, NoBody, FALSE)
                                       ELSE NoResponse]]
             /\ FIREBASE_AVAILABLE' = after[1]
             /\ auth' = after[2]
             /\ firebase_admin' = after[3]
    /\ UNCHANGED <<pc, repositories, card_repository, strategy_repository, store, calls>>

HandleGetStrategies(s) ==
    /\ pc = "serving"
    /\ req[s].pc = "authed"
    /\ req[s].endpoint = "get_strategies"
    /\ \E listing \in ListEnds(strategy_repository, get_by_owner_id(store, req[s].auth.value)) :
         req' = [req EXCEPT ![s] =
                    [@ EXCEPT !.pc = "done", !.listing = listing,
                              !.resp = get_strategies(req[s].auth.value, listing)]]
    /\ UNCHANGED <<pc, FIREBASE_AVAILABLE, auth, firebase_admin, repositories,
                   card_repository, strategy_repository, store, calls>>

HandleGetThreads(s) ==
    /\ pc = "serving"
    /\ req[s].pc = "authed"
    /\ req[s].endpoint = "get_threads"
    /\ \E listing \in ListEnds(strategy_repository, get_by_owner_id(store, req[s].auth.value)) :
         req' = [req EXCEPT ![s] =
                    [@ EXCEPT !.pc = "done", !.listing = listing,
                              !.resp = get_threads(req[s].auth.value, listing)]]
    /\ UNCHANGED <<pc, FIREBASE_AVAILABLE, auth, firebase_admin, repositories,
                   card_repository, strategy_repository, store, calls>>

HandleGetStrategyByThreadId(s) ==
    /\ pc = "serving"
    /\ req[s].pc = "authed"
    /\ req[s].endpoint = "get_strategy_by_thread_id"
    /\ \E lookup \in LookupEnds(strategy_repository, get_by_thread_id(store, req[s].path)),
          card_fault \in CardFaults(card_repository) :
         req' = [req EXCEPT ![s] =
                    [@ EXCEPT !.pc = "done", !.lookup = lookup,
                              !.card_fault = card_fault,
                              !.resp = get_strategy_by_thread_id(
                                           req[s].path, req[s].auth.value,
                                           lookup, card_fault)]]
    /\ UNCHANGED <<pc, FIREBASE_AVAILABLE, auth, firebase_admin, repositories,
                   card_repository, strategy_repository, store, calls>>

HandleGetStrategyById(s) ==
    /\ pc = "serving"
    /\ req[s].pc = "authed"
    /\ req[s].endpoint = "get_strategy_by_id"
    /\ \E lookup \in LookupEnds(strategy_repository, get_by_id(store, req[s].path)),
          card_fault \in CardFaults(card_repository) :
         req' = [req EXCEPT ![s] =
                    [@ EXCEPT !.pc = "done", !.lookup = lookup,
                              !.card_fault = card_fault,
                              !.resp = get_strategy_by_id(
                                           req[s].path, req[s].auth.value,
                                           lookup, card_fault)]]
    /\ UNCHANGED <<pc, FIREBASE_AVAILABLE, auth, firebase_admin, repositories,
                   card_repository, strategy_repository, store, calls>>

HandleGetThread(s) ==
    /\ pc = "serving"
    /\ req[s].pc = "authed"
    /\ req[s].endpoint = "get_thread"
    /\ \E lookup \in LookupEnds(strategy_repository, get_by_thread_id(store, req[s].path)) :
         req' = [req EXCEPT ![s] =
                    [@ EXCEPT !.pc = "done", !.lookup = lookup,
                              !.resp = get_thread(req[s].path, req[s].auth.value, lookup)]]
    /\ UNCHANGED <<pc, FIREBASE_AVAILABLE, auth, firebase_admin, repositories,
                   card_repository, strategy_repository, store, calls>>

\* The response is sent; nothing of the request is kept.
Complete(s) ==
    /\ pc = "serving"
    /\ req[s].pc = "done"
    /\ req' = [req EXCEPT ![s] = Idle]
    /\ UNCHANGED <<pc, FIREBASE_AVAILABLE, auth, firebase_admin, repositories,
                   card_repository, strategy_repository, store, calls>>

Handle(s) ==
    \/ HandleGetStrategies(s)
    \/ HandleGetThreads(s)
    \/ HandleGetStrategyByThreadId(s)
    \/ HandleGetStrategyById(s)
    \/ HandleGetThread(s)

Startup == ImportAuth \/ ImportRoutes \/ Lifespan

\* One request at a time, every token up to MaxLen characters.
Next ==
    \/ Startup
    \/ Arrive(1, Credentials, PathIds)
    \/ Authenticate(1, VerifyOutcomes)
    \/ Handle(1)
    \/ Complete(1)

Spec == Init /\ [][Next]_vars

\* Requests in flight together, drawn from a few representative inputs.
ConcCredentials == {NoCredentials, Bearer(<<".", ".">>)}
ConcPaths == {"s1"}
ConcOutcomes ==
    {Decoded([sub |-> Str("u1"), uid |-> Str("u1"), user_id |-> Missing]),
     Raises([cls |-> "ExpiredIdTokenError", padding |-> FALSE])}

NextConc ==
    \/ Startup
    \/ \E s \in Slots :
         \/ Arrive(s, ConcCredentials, ConcPaths)
         \/ Authenticate(s, ConcOutcomes)
         \/ Handle(s)
         \/ Complete(s)

SpecConc == Init /\ [][NextConc]_vars

\* ------------------------------------------------- get_threads on its own

\* The strategies of one caller, listed in every order: with and without a
\* thread_id, sharing thread_ids, with equal and different updated_at.
StrategyIds == <<"s1", "s2", "s3", "s4", "s5", "s6">>
ThreadIds == {None, Str(""), Str("t1"), Str("t2")}
ThreadCaller == Str("u1")
ThreadStores ==
    UNION {{[i \in 1 .. n |-> Strategy(StrategyIds[i], ThreadCaller, f[i][1], f[i][2], <<>>)] :
               f \in [1 .. n -> ThreadIds \X (1 .. MaxStamp)]} :
           n \in 0 .. MaxStrategies}

\* A process that started without a fault.
StartedEnv ==
    [mcp_installed |-> TRUE, project |-> Str("proj"), database |-> Str("strategy"),
     client_ok |-> TRUE, card_ok |-> TRUE, strategy_ok |-> TRUE]
StartedAuth == auth_module_body("ok")
StartedCards == module_getattr("card_repository", ReposInit, StartedEnv)
StartedStrategies == module_getattr("strategy_repository", StartedCards.g, StartedEnv)
StartedClient == module_getattr("firestore_client", StartedStrategies.g, StartedEnv)

\* A request of the caller to get_threads, past its user_id dependency.
ThreadCredentials == Bearer(<<".", ".">>)
ThreadOutcome == Decoded([sub |-> Missing, uid |-> ThreadCaller, user_id |-> Missing])
ThreadRequest ==
    [Idle EXCEPT !.pc = "authed", !.endpoint = "get_threads",
                 !.cred = ThreadCredentials, !.outcome = ThreadOutcome,
                 !.auth = get_user_id_required(ThreadCredentials,
                              StartedAuth.FIREBASE_AVAILABLE, StartedAuth.auth,
                              StartedAuth.firebase_admin, ThreadOutcome)]

InitThreads ==
    /\ pc = "serving"
    /\ FIREBASE_AVAILABLE = StartedAuth.FIREBASE_AVAILABLE
    /\ auth = StartedAuth.auth
    /\ firebase_admin = StartedAuth.firebase_admin
    /\ repositories = StartedClient.g
    /\ card_repository = StartedCards.value
    /\ strategy_repository = StartedStrategies.value
    /\ calls = <<Call("get_card_repository", StartedCards),
                 Call("get_strategy_repository", StartedStrategies),
                 Call("get_firestore_client", StartedClient)>>
    /\ store \in ThreadStores
    /\ req = [s \in Slots |-> IF s = 1 THEN ThreadRequest ELSE Idle]

NextThreads == HandleGetThreads(1)

SpecThreads == InitThreads /\ [][NextThreads]_vars

\* ------------------------------------------ the accessors on their own

Accessors == {"get_firestore_client", "get_card_repository", "get_strategy_repository"}

accessor(name, g, env) ==
    IF name = "get_firestore_client" THEN get_firestore_client(g, env)
    ELSE IF name = "get_card_repository" THEN get_card_repository(g, env)
    ELSE get_strategy_repository(g, env)

\* Any code calls an accessor, in whatever environment the call finds.
CallAccessor(name) ==
    /\ Len(calls) < MaxCalls
    /\ \E env \in InitEnvs :
         LET r == accessor(name, repositories, env)
         IN  /\ repositories' = r.g
             /\ calls' = Append(calls, Call(name, r))
    /\ UNCHANGED <<pc, FIREBASE_AVAILABLE, auth, firebase_admin, card_repository,
                   strategy_repository, store, req>>

NextRepos == \E name \in Accessors : CallAccessor(name)

SpecRepos == Init /\ [][NextRepos]_vars

\* ================================================================ claims

\* Request s has passed its user_id dependency / has its response.
Past(s) == req[s].pc \in {"authed", "done"}
Done(s) == req[s].pc = "done"

\* Request s is at a single-resource endpoint, its handler ran and the
\* repository lookup returned a resource.
FoundResource(s) ==
    /\ Done(s)
    /\ req[s].endpoint \in SingleEndpoints
    /\ req[s].resp.queried
    /\ ~req[s].lookup.raised
    /\ req[s].lookup.result.found

Owner(s) == req[s].lookup.result.s.owner_id
Caller(s) == req[s].auth.value

\* The card repository raised while the handler of s collected the cards.
CardsRaised(s) ==
    /\ req[s].endpoint \in {"get_strategy_by_thread_id", "get_strategy_by_id"}
    /\ req[s].card_fault
    /\ req[s].lookup.result.s.attachments # <<>>

\* The number of dots of a token.
Dots(token) == Cardinality({i \in DOMAIN token : token[i] = "."})

\* C1 as stated: on a found resource the owner and the caller alone decide the
\* status: owner absent -> 200, owner present and caller absent -> 401, caller
\* different from the owner -> 403, caller equal to the owner -> 200.
C1_Original ==
    \A s \in Slots : FoundResource(s) =>
        req[s].resp.status =
            IF ~Truthy(Owner(s)) THEN 200
            ELSE IF ~Truthy(Caller(s)) THEN HTTP_401_UNAUTHORIZED
            ELSE IF Caller(s) # Owner(s) THEN HTTP_403_FORBIDDEN
            ELSE 200

\* C1 amended: on a found resource, owner absent (None or empty) -> allowed,
\* owner present and caller absent -> 401, caller different from the owner ->
\* 403, caller equal to the owner -> allowed; an allowed request is answered
\* 200 unless the card repository raises while the attached cards are
\* collected, and then 500. No 200 for an owned resource goes to a caller who
\* is absent or is not the owner.
C1_AccessDecidedByOwnerAndCaller ==
    \A s \in Slots : FoundResource(s) =>
        /\ req[s].resp.status =
              IF Truthy(Owner(s)) /\ ~Truthy(Caller(s)) THEN HTTP_401_UNAUTHORIZED
              ELSE IF Truthy(Owner(s)) /\ Caller(s) # Owner(s) THEN HTTP_403_FORBIDDEN
              ELSE IF CardsRaised(s) THEN HTTP_500_INTERNAL_SERVER_ERROR
              ELSE 200
        /\ (req[s].resp.status = 200 /\ Truthy(Owner(s))) => Caller(s) = Owner(s)

\* An owned resource was asked for by a verified caller who is not its owner,
\* and the answer was 403.
C1_Witness ==
    \E s \in Slots :
        /\ FoundResource(s)
        /\ Truthy(Owner(s)) /\ Truthy(Caller(s)) /\ Caller(s) # Owner(s)
        /\ req[s].resp.status = HTTP_403_FORBIDDEN

\* C2: without credentials get_user_id_optional returns None and raises
\* nothing, whatever the configuration: an optional endpoint goes on with the
\* absent identity, and a list endpoint's 401 is get_user_id_required's own.
C2_NoCredentialsIsAnonymous ==
    \A s \in Slots : (Past(s) /\ ~req[s].cred.present) =>
        IF req[s].endpoint \in SingleEndpoints
        THEN req[s].auth = Return(None, FALSE)
        ELSE req[s].auth = HTTPException(HTTP_401_UNAUTHORIZED,
                                         "Authentication required", FALSE)

\* With the backend unavailable, a request without credentials got past
\* get_user_id_optional as anonymous.
C2_Witness ==
    \E s \in Slots :
        /\ ~FIREBASE_AVAILABLE
        /\ req[s].pc = "authed"
        /\ ~req[s].cred.present
        /\ req[s].auth.value = None

\* C3: at a list endpoint get_user_id_required raises 401 whenever
\* get_user_id_optional yields an absent identity and otherwise ends exactly
\* as get_user_id_optional does; a request without a token is answered 401
\* and its repository query never runs.
C3_RequiredWrapsOptional ==
    \A s \in Slots : (Past(s) /\ req[s].endpoint \in ListEndpoints) =>
        LET o == get_user_id_optional(req[s].cred, FIREBASE_AVAILABLE, auth,
                                      firebase_admin, req[s].outcome)
        IN  /\ (o.kind = "return" /\ ~Truthy(o.value)) =>
                  /\ req[s].auth.kind = "raise"
                  /\ req[s].auth.status = HTTP_401_UNAUTHORIZED
            /\ (o.kind = "return" /\ Truthy(o.value)) => req[s].auth = o
            /\ ~req[s].cred.present =>
                  /\ Done(s)
                  /\ req[s].resp.status = HTTP_401_UNAUTHORIZED
                  /\ ~req[s].resp.queried
            /\ req[s].resp.queried => Truthy(Caller(s))

\* A list request without a token ended 401 with no query made.
C3_Witness ==
    \E s \in Slots :
        /\ Done(s)
        /\ req[s].endpoint \in ListEndpoints
        /\ ~req[s].cred.present
        /\ req[s].resp.status = HTTP_401_UNAUTHORIZED
        /\ ~req[s].resp.queried

\* C4: a supplied token that, trimmed, is not exactly 3 dot-separated segments
\* (does not hold exactly 2 dots) is answered 401 before the backend is
\* consulted, whether or not the backend is available.
C4_MalformedTokenIs401 ==
    \A s \in Slots :
        (Past(s) /\ req[s].cred.present /\ Dots(Strip(req[s].cred.token)) # 2) =>
            /\ Done(s)
            /\ req[s].auth.kind = "raise"
            /\ req[s].auth.status = HTTP_401_UNAUTHORIZED
            /\ ~req[s].auth.consulted
            /\ req[s].outcome = NoOutcome
            /\ req[s].resp.status = HTTP_401_UNAUTHORIZED
            /\ ~req[s].resp.queried

\* With the backend unavailable, a token of 4 segments was answered 401.
C4_Witness ==
    \E s \in Slots :
        /\ ~FIREBASE_AVAILABLE
        /\ Done(s)
        /\ req[s].cred.present
        /\ Dots(Strip(req[s].cred.token)) = 3
        /\ req[s].resp.status = HTTP_401_UNAUTHORIZED

\* Request s supplied a token that passes the format check.
WellFormed(s) == req[s].cred.present /\ Dots(Strip(req[s].cred.token)) = 2

\* The backend was asked about the token of s and verified it / raised.
Verified(s) == Past(s) /\ req[s].outcome.kind = "ok"
VerifyRaised(s) == Past(s) /\ req[s].outcome.kind = "raise"

\* C5 as stated: with the backend unavailable a well-formed token is answered
\* 500, never 401 and never an identity; and an operational fault of the
\* verification backend is never reported as 401.
C5_Original ==
    \A s \in Slots :
        /\ (Past(s) /\ WellFormed(s) /\ backend_unavailable(FIREBASE_AVAILABLE, auth)) =>
              /\ req[s].auth.kind = "raise"
              /\ req[s].auth.status = HTTP_500_INTERNAL_SERVER_ERROR
        /\ (VerifyRaised(s) /\ IsOperationalFault(req[s].outcome.exc)) =>
              req[s].auth.status # HTTP_401_UNAUTHORIZED

\* The identity the stated precedence selects: sub, then uid, then user.id.
ByPrecedence(payload) ==
    IF payload.sub # Missing THEN payload.sub
    ELSE IF payload.uid # Missing THEN payload.uid
    ELSE payload.user_id

\* C6 as stated: a verified token whose payload carries a subject claim yields
\* that subject; the identity is taken from sub, then uid, then user.id.
C6_Original ==
    \A s \in Slots : (Verified(s) /\ Truthy(ByPrecedence(req[s].outcome.payload))) =>
        req[s].auth = Return(PyStr(ByPrecedence(req[s].outcome.payload)), TRUE)

\* C6 amended: a verified token whose decoded payload carries a truthy uid
\* yields str(uid) as the caller identity; uid alone is read, whatever sub and
\* user.id hold.
C6_IdentityIsUid ==
    \A s \in Slots :
        (Verified(s) /\ Truthy(DictGet(req[s].outcome.payload.uid))) =>
            /\ req[s].auth = Return(Str(req[s].outcome.payload.uid.v), TRUE)
            /\ req[s].auth.value.t = "str"

\* A verified payload whose sub and uid differ gave the uid.
C6_Witness ==
    \E s \in Slots :
        /\ Verified(s)
        /\ req[s].outcome.payload.sub = Str("u1")
        /\ req[s].outcome.payload.uid = Str("u2")
        /\ req[s].auth.value = Str("u2")

\* C7: a verified token whose payload has no usable identity (uid missing or
\* falsy) is answered 401: the 401 raised in the try block is still a 401
\* after the except clauses.
C7_MissingIdentityIs401 ==
    \A s \in Slots :
        (Verified(s) /\ ~Truthy(DictGet(req[s].outcome.payload.uid))) =>
            /\ Done(s)
            /\ req[s].auth.kind = "raise"
            /\ req[s].auth.status = HTTP_401_UNAUTHORIZED
            /\ req[s].resp.status = HTTP_401_UNAUTHORIZED
            /\ ~req[s].resp.queried

\* A verified payload with none of sub, uid, user.id was answered 401.
C7_Witness ==
    \E s \in Slots :
        /\ Verified(s)
        /\ req[s].outcome.payload = NoPayload
        /\ req[s].resp.status = HTTP_401_UNAUTHORIZED

\* C8: a token on which verification raises, whatever the exception, is
\* answered 401: no identity and no anonymous identity is returned, and no
\* handler runs for it.
C8_VerificationErrorIs401 ==
    \A s \in Slots : VerifyRaised(s) =>
        /\ Done(s)
        /\ req[s].auth.kind = "raise"
        /\ req[s].auth.status = HTTP_401_UNAUTHORIZED
        /\ req[s].resp.status = HTTP_401_UNAUTHORIZED
        /\ ~req[s].resp.queried

\* An exception of no particular class, raised on a request for a resource
\* without owner, was answered 401.
C8_Witness ==
    \E s \in Slots :
        /\ VerifyRaised(s)
        /\ req[s].outcome.exc = [cls |-> "Exception", padding |-> FALSE]
        /\ req[s].endpoint = "get_strategy_by_id"
        /\ \E r \in get_by_id(store, req[s].path) : r.found /\ r.s.owner_id = None
        /\ req[s].resp.status = HTTP_401_UNAUTHORIZED

\* The Firebase Admin SDK was missing or failed to initialise.
FirebaseInitFailed == pc # "import_auth" /\ ~FIREBASE_AVAILABLE

\* Request s was answered with the backend-unavailable error.
AnsweredUnavailable(s) ==
    /\ Done(s)
    /\ req[s].resp.status = HTTP_500_INTERNAL_SERVER_ERROR
    /\ req[s].resp.detail = "Firebase authentication not available"

\* C9 as stated: a missing or failed Firebase initialisation is fatal at
\* start-up: the process never serves, and no request is answered with the
\* fault.
C9_Original ==
    /\ FirebaseInitFailed => pc \notin {"lifespan", "serving"}
    /\ \A s \in Slots : ~AnsweredUnavailable(s)

\* C9 amended: a missing or failed Firebase initialisation is not fatal: the
\* import of src/auth.py always completes, leaving FIREBASE_AVAILABLE false
\* and auth None, and from then on every request that supplies a well-formed
\* token is answered 500.
C9_FaultDeferredToRequests ==
    /\ [][pc = "import_auth" => pc' = "import_routes"]_vars
    /\ [](FirebaseInitFailed => auth = None)
    /\ [](\A s \in Slots :
            (Past(s) /\ WellFormed(s) /\ FirebaseInitFailed) => AnsweredUnavailable(s))

\* The process serves although initialize_app() failed, and answered a request 500.
C9_Witness ==
    /\ pc = "serving"
    /\ ~FIREBASE_AVAILABLE
    /\ firebase_admin # None
    /\ \E s \in Slots : AnsweredUnavailable(s)

\* The response the handler of s gives for its own inputs under the present
\* configuration and store.
OwnResponse(s) ==
    LET r == req[s]
    IN  IF r.endpoint = "get_strategies" THEN get_strategies(r.auth.value, r.listing)
        ELSE IF r.endpoint = "get_threads" THEN get_threads(r.auth.value, r.listing)
        ELSE IF r.endpoint = "get_strategy_by_thread_id"
            THEN get_strategy_by_thread_id(r.path, r.auth.value, r.lookup, r.card_fault)
        ELSE IF r.endpoint = "get_strategy_by_id"
            THEN get_strategy_by_id(r.path, r.auth.value, r.lookup, r.card_fault)
        ELSE get_thread(r.path, r.auth.value, r.lookup)

\* C10: no step of a request writes the verification configuration, the
\* repository handles or the store, which are set during start-up only; so
\* with requests interleaved, what each request was given by its dependency
\* and by its handler is what its own token and path give under the
\* configuration and store in place.
C10_RequestsAreStateless ==
    /\ [][pc = "serving" => UNCHANGED config]_vars
    /\ [](\A s \in Slots : Past(s) =>
            /\ req[s].auth = Dependency(req[s].endpoint, req[s].cred, req[s].outcome)
            /\ (Done(s) /\ req[s].resp.queried) => req[s].resp = OwnResponse(s)
            /\ (Done(s) /\ ~req[s].resp.queried) =>
                  req[s].resp = Response(req[s].auth.status, req[s].auth.detail,
                                         NoBody, FALSE))

\* Two requests are in flight, one past a verification that raised and one
\* whose verified token let it through.
C10_Witness ==
    \E s, t \in Slots :
        /\ s # t
        /\ VerifyRaised(s)
        /\ Verified(t)
        /\ req[t].pc = "authed"

\* Request s is a list request whose handler answered 200.
Listed(s, endpoint) ==
    /\ Done(s)
    /\ req[s].endpoint = endpoint
    /\ req[s].resp.queried
    /\ req[s].resp.status = 200

\* The strategies of the store whose owner is the caller of s.
OwnedByCaller(s) == {x \in Range(store) : x.owner_id = Caller(s)}

\* C11: for an authenticated caller get_strategies returns one entry per
\* strategy the repository reported for the caller, which are exactly the
\* strategies the caller owns; every thread get_threads returns comes from a
\* strategy the caller owns; no entry of a list response has another owner.
C11_ListsAreTheCallersOwn ==
    \A s \in Slots :
        /\ Listed(s, "get_strategies") =>
              LET items == req[s].resp.body.items
              IN  /\ Truthy(Caller(s))
                  /\ Len(items) = Len(req[s].listing.result)
                  /\ Len(items) = Cardinality(OwnedByCaller(s))
                  /\ {items[i].id : i \in DOMAIN items} = {x.id : x \in OwnedByCaller(s)}
                  /\ \A i \in DOMAIN items :
                        /\ items[i].owner_id = Caller(s)
                        /\ items[i] \in Range(store)
        /\ Listed(s, "get_threads") =>
              LET items == req[s].resp.body.items
              IN  /\ Truthy(Caller(s))
                  /\ \A i \in DOMAIN items :
                        \E x \in OwnedByCaller(s) :
                            /\ x.id = items[i].strategy_id
                            /\ x.thread_id = Str(items[i].thread_id)
                            /\ x.updated_at = items[i].updated_at

\* A caller who owns several strategies, in a store that holds strategies of
\* others too, was listed its own.
C11_Witness ==
    \E s \in Slots :
        /\ Listed(s, "get_strategies")
        /\ Len(req[s].resp.body.items) >= 2
        /\ \E x \in Range(store) : Truthy(x.owner_id) /\ x.owner_id # Caller(s)

\* The repository lookup of s returned no resource.
LookupFoundNothing(s) ==
    /\ Done(s)
    /\ req[s].endpoint \in SingleEndpoints
    /\ req[s].resp.queried
    /\ ~req[s].lookup.raised
    /\ ~req[s].lookup.result.found

\* C12: at the three single-resource endpoints a lookup that returns no
\* resource is answered 404, whoever the caller is (absent or verified): the
\* not-found check comes before the ownership check.
C12_NotFoundIs404 ==
    \A s \in Slots : LookupFoundNothing(s) =>
        /\ req[s].resp.status = HTTP_404_NOT_FOUND
        /\ req[s].resp.body = NoBody

\* A verified caller asked get_strategy_by_id for a strategy that does not
\* exist and was answered 404.
C12_Witness ==
    \E s \in Slots :
        /\ LookupFoundNothing(s)
        /\ req[s].endpoint = "get_strategy_by_id"
        /\ Truthy(Caller(s))
        /\ req[s].resp.status = HTTP_404_NOT_FOUND

TryEndpoints == {"get_strategy_by_thread_id", "get_thread"}

\* Request s was answered by its handler, which ran its repository query.
Answered(s) == Done(s) /\ req[s].resp.queried

DatabaseError(s) ==
    /\ req[s].resp.status = HTTP_500_INTERNAL_SERVER_ERROR
    /\ req[s].resp.detail = "Database error"

\* C14: in get_strategy_by_thread_id and get_thread the 404, 401 and 403 raised
\* inside the try block are the status of the response, and the response is a
\* 500 exactly when the repository raised another exception; in get_strategies
\* and get_threads the response is a 500 exactly when the repository raised.
C14_HttpErrorsKeepTheirStatus ==
    \A s \in Slots : Answered(s) =>
        LET r == req[s]
        IN  /\ r.endpoint \in TryEndpoints =>
                  /\ (~r.lookup.raised /\ ~r.lookup.result.found)
                         => r.resp.status = HTTP_404_NOT_FOUND
                  /\ (FoundResource(s) /\ Truthy(Owner(s)) /\ ~Truthy(Caller(s)))
                         => r.resp.status = HTTP_401_UNAUTHORIZED
                  /\ (FoundResource(s) /\ Truthy(Owner(s)) /\ Truthy(Caller(s))
                         /\ Caller(s) # Owner(s))
                         => r.resp.status = HTTP_403_FORBIDDEN
                  /\ r.lookup.raised => DatabaseError(s)
                  /\ r.resp.status = HTTP_500_INTERNAL_SERVER_ERROR
                         => \/ r.lookup.raised
                            \/ FoundResource(s) /\ CardsRaised(s)
            /\ r.endpoint \in ListEndpoints =>
                  /\ r.listing.raised => DatabaseError(s)
                  /\ r.resp.status = HTTP_500_INTERNAL_SERVER_ERROR => r.listing.raised

C14_Witness ==
    \E s \in Slots :
        /\ Answered(s)
        /\ req[s].endpoint = "get_strategy_by_thread_id"
        /\ FoundResource(s)
        /\ Truthy(Caller(s))
        /\ req[s].resp.status = HTTP_403_FORBIDDEN

\* The positions in strategies of the strategies of thread thread_id, and of
\* those the position of the first with the greatest updated_at.
OfThread(strategies, thread_id) ==
    {k \in DOMAIN strategies : strategies[k].thread_id = Str(thread_id)}

FirstLatest(strategies, thread_id) ==
    CHOOSE k \in OfThread(strategies, thread_id) :
        \A l \in OfThread(strategies, thread_id) :
            \/ strategies[l].updated_at < strategies[k].updated_at
            \/ strategies[l].updated_at = strategies[k].updated_at /\ k <= l

\* C13: get_threads returns one entry for each thread_id of the caller's
\* strategies and none for a strategy without a thread_id; each entry carries
\* the fields of the thread's strategy with the greatest updated_at, the first
\* listed on ties; the entries are ordered by updated_at, latest first.
C13_ThreadsAreLatestPerThread ==
    \A s \in Slots : Listed(s, "get_threads") =>
        LET strategies == req[s].listing.result
            threads == req[s].resp.body.items
        IN  /\ {threads[i].thread_id : i \in DOMAIN threads}
                   = {strategies[k].thread_id.v :
                         k \in {l \in DOMAIN strategies : Truthy(strategies[l].thread_id)}}
            /\ \A i, j \in DOMAIN threads :
                   threads[i].thread_id = threads[j].thread_id => i = j
            /\ \A i \in DOMAIN threads :
                   LET k == FirstLatest(strategies, threads[i].thread_id)
                   IN  /\ threads[i].thread_id # ""
                       /\ threads[i].strategy_id = strategies[k].id
                       /\ threads[i].updated_at = strategies[k].updated_at
            /\ \A i, j \in DOMAIN threads :
                   i < j => threads[i].updated_at >= threads[j].updated_at

C13_Witness ==
    \E s \in Slots :
        /\ Listed(s, "get_threads")
        /\ LET strategies == req[s].listing.result
               threads == req[s].resp.body.items
           IN  /\ Len(threads) = 2
               /\ threads[1].updated_at > threads[2].updated_at
               /\ threads[1].strategy_id = strategies[Len(strategies)].id
               /\ \E k, l \in DOMAIN strategies :
                      /\ k < l
                      /\ strategies[k].thread_id = strategies[l].thread_id
                      /\ strategies[k].updated_at = strategies[l].updated_at
                      /\ threads[2].strategy_id = strategies[k].id

\* The module's globals when call i began.
GlobalsBefore(i) == IF i = 1 THEN ReposInit ELSE calls[i - 1].g

\* The calls that set the Firestore client.
ClientInitialisations ==
    {i \in DOMAIN calls : /\ GlobalsBefore(i)._firestore_client = None
                          /\ calls[i].g._firestore_client # None}

\* C15 as stated: whatever accessor calls came before, raising ones included,
\* a call that returns without raising returns a handle that is not None and
\* leaves no state with the client set and a repository unset; the client is
\* initialised at most once.
C15_Original ==
    /\ \A i \in DOMAIN calls :
           calls[i].raised = "" =>
               /\ calls[i].value # None
               /\ calls[i].g._firestore_client # None =>
                      /\ calls[i].g._card_repository # None
                      /\ calls[i].g._strategy_repository # None
    /\ Cardinality(ClientInitialisations) <= 1

====
